---- MODULE Spec2Model ----
(***************************************************************************)
(* Model of summarize_smina_components.py: parse_log, build_summary,       *)
(* write_summary_csv and main.                                             *)
(*                                                                         *)
(* Representation.  A log line is a record [indent, toks]: toks is what    *)
(* str.split() returns for the line and indent says whether the line       *)
(* starts with whitespace; tokens are separated by single blanks.  Floats  *)
(* are scaled integers: a Python value is a record [t, v, e] standing for  *)
(* None, the string "" or the float v * 10^-e (raw values have e = 0,      *)
(* coefficients and weighted values e = 6).                                *)
(***************************************************************************)
EXTENDS Integers, Sequences, FiniteSets, TLC

\* ------------------------------------------------------------- bounds
\* Longest log, in lines.
MaxLines == 3
\* build_summary inputs range over -MaxRaw..MaxRaw.
MaxRaw == 1
\* write_summary_csv inputs miss at most MaxMissing arbitrary keys.
MaxMissing == 1

\* ------------------------------------------------------------- values
PyNone == [t |-> "None", v |-> 0, e |-> 0]
EmptyStr == [t |-> "str", v |-> 0, e |-> 0]
PyFloat(n, scale) == [t |-> "float", v |-> n, e |-> scale]
NoList == [t |-> "None", items |-> <<>>]
PyList(s) == [t |-> "list", items |-> s]

\* TERM_NAMES (coefficients times 10^6)
TERM_NAMES ==
  << [key |-> "gauss1", label |-> "gauss(o=0,_w=0.5,_c=8)", coeff |-> -35579],
     [key |-> "gauss2", label |-> "gauss(o=3,_w=2,_c=8)", coeff |-> -5156],
     [key |-> "repulsion", label |-> "repulsion(o=0,_c=8)", coeff |-> 840245],
     [key |-> "hydrophobic", label |-> "hydrophobic(g=0.5,_b=1.5,_c=8)", coeff |-> -35069],
     [key |-> "hydrogen_bond", label |-> "non_dir_h_bond(g=-0.7,_b=0,_c=8)", coeff |-> -587439],
     [key |-> "torsion", label |-> "num_tors_div", coeff |-> 1923000] >>

\* ------------------------------------------------------------- float()
\* float(s) on the tokens of the alphabet: the tokens it accepts and the
\* value it gives; every other token raises ValueError.
FloatTable ==
  [s \in {"0", "1", "2", "3", "-4", "-5", "6", "9", "-7", "-8", "-3", "1e1", "+2"} |->
     CASE s = "0" -> 0   [] s = "1" -> 1   [] s = "2" -> 2   [] s = "3" -> 3
       [] s = "-4" -> -4 [] s = "-5" -> -5 [] s = "6" -> 6   [] s = "9" -> 9
       [] s = "-7" -> -7 [] s = "-8" -> -8 [] s = "-3" -> -3
       [] s = "1e1" -> 10 [] s = "+2" -> 2]

_is_float(value) == value \in DOMAIN FloatTable

float(value) == PyFloat(FloatTable[value], 0)

\* ------------------------------------------------------------- lines
Line(ind, ts) == [indent |-> ind, toks |-> ts]

\* line.startswith("Affinity:")
StartsWithAffinity(line) ==
  /\ ~line.indent
  /\ Len(line.toks) >= 1
  /\ line.toks[1] \in {"Affinity:", "Affinity:-7"}

\* line.startswith("Intramolecular energy:")
StartsWithIntramolecular(line) ==
  /\ ~line.indent
  /\ Len(line.toks) >= 2
  /\ line.toks[1] = "Intramolecular"
  /\ line.toks[2] = "energy:"

\* LOG_RAW_PATTERN.match(line): "##" at the start of the line, whitespace,
\* then at least one more character.  A bare "##" followed only by blanks
\* either fails to match or matches with a remainder that splits into no
\* token; both end in the same branch, and it is modelled as the latter.
LOG_RAW_PATTERN(line) ==
  /\ ~line.indent
  /\ Len(line.toks) >= 1
  /\ line.toks[1] = "##"

\* match.group(1).strip().split()
Numbers(line) == Tail(line.toks)

\* numbers and all(_is_float(n) for n in numbers)
AllFloats(numbers) ==
  /\ numbers # <<>>
  /\ \A k \in 1..Len(numbers) : _is_float(numbers[k])

\* [float(n) for n in numbers]
Floats(numbers) == [k \in 1..Len(numbers) |-> float(numbers[k])]


\* ------------------------------------------------------------- inputs
NumLine(ts) == Line(FALSE, <<"##">> \o ts)

SixA == <<"1", "2", "3", "-4", "-5", "6">>
SixB == <<"+2", "0", "1e1", "1", "-4", "3">>

\* The lines a log is made of.
LineSet ==
  { Line(FALSE, <<"Affinity:", "-7", "(kcal/mol)">>),
    Line(FALSE, <<"Affinity:", "-8">>),
    Line(FALSE, <<"Affinity:", "kcal/mol">>),
    Line(FALSE, <<"Affinity:-7">>),
    Line(FALSE, <<"Intramolecular", "energy:", "-3">>),
    Line(FALSE, <<"Intramolecular", "energy:", "pose", "1", "-3">>),
    Line(FALSE, <<"Intramolecular", "energy:">>),
    Line(TRUE, <<"##", "9", "9", "9", "9", "9", "9">>),
    NumLine(<<"Name", "1", "2", "3", "-4", "-5", "6">>),
    NumLine(<<>>),
    NumLine(SixA),
    NumLine(SixB),
    NumLine(SixA \o <<"9">>),
    NumLine(<<"1", "2", "3", "-4", "-5">>) }

RECURSIVE SeqsUpTo(_, _)
SeqsUpTo(S, n) ==
  IF n = 0 THEN {<<>>}
  ELSE LET shorter == SeqsUpTo(S, n - 1)
       IN  shorter \cup {Append(s, x) : s \in shorter, x \in S}

Logs == SeqsUpTo(LineSet, MaxLines)

LogPaths == {"pose.log", "site/pose.log"}

NoFile == [exists |-> FALSE, header |-> <<>>, rows |-> <<>>]
OldFile == [exists |-> TRUE, header |-> <<"stale">>, rows |-> <<>>]

\* The output path before the run: nothing there, not even its parent
\* directory, or an earlier file.
FsStates ==
  { [dir |-> FALSE, file |-> NoFile],
    [dir |-> TRUE, file |-> OldFile] }

EmptyDict == [k \in {} |-> PyNone]
NoError == [type |-> "none", msg |-> "", path |-> ""]

\* ------------------------------------------------------------- state
VARIABLES
  args,            \* what the run was entered with: the --log path, the state of
                   \* the output path, and (for a direct call of
                   \* write_summary_csv) its summary and affinity arguments
  log,             \* the lines of the file at args.log
  log_path,        \* main's log_path
  pc,              \* where the run is
  i,               \* parse_log: index of the next line of fh
  affinity,        \* parse_log's, then main's, affinity
  intramolecular,  \* parse_log's, then main's, intramolecular
  raw_values,      \* parse_log's, then main's, raw_values
  summary,         \* main's summary (the mapping build_summary returns)
  out_dir,         \* whether output_path.parent exists
  out_file,        \* the file at output_path
  err              \* the exception that ended the run, if any

vars == <<args, log, log_path, pc, i, affinity, intramolecular, raw_values,
          summary, out_dir, out_file, err>>

Init ==
  /\ args \in [log : LogPaths, fs : FsStates, summary : {EmptyDict}, affinity : {PyNone}]
  /\ log \in Logs
  /\ log_path = ""
  /\ pc = "start"
  /\ i = 0
  /\ affinity = PyNone
  /\ intramolecular = PyNone
  /\ raw_values = NoList
  /\ summary = EmptyDict
  /\ out_dir = args.fs.dir
  /\ out_file = args.fs.file
  /\ err = NoError

\* ------------------------------------------------------------- parse_log
\* Bug variant: main opens the output file before it parses the log.
MainStart_OpensOutput ==
  /\ pc = "start"
  /\ log_path' = args.log
  /\ affinity' = PyNone
  /\ intramolecular' = PyNone
  /\ raw_values' = NoList
  /\ i' = 1
  /\ pc' = "scan"
  /\ out_dir' = TRUE
  /\ out_file' = [exists |-> TRUE, header |-> <<>>, rows |-> <<>>]
  /\ UNCHANGED <<args, log, summary, err>>

\* main up to the call of parse_log, and parse_log up to its loop.
MainStart ==
  /\ pc = "start"
  /\ log_path' = args.log
  /\ affinity' = PyNone
  /\ intramolecular' = PyNone
  /\ raw_values' = NoList
  /\ i' = 1
  /\ pc' = "scan"
  /\ UNCHANGED <<args, log, summary, out_dir, out_file, err>>

IndexError == [type |-> "IndexError", msg |-> "list index out of range", path |-> ""]
FloatError == [type |-> "ValueError", msg |-> "could not convert string to float", path |-> ""]

\* The ValueError of lines 39-42.
MalformedLog(path) ==
  [type |-> "ValueError", msg |-> "Could not locate all raw term values in log", path |-> path]

\* Which token of an "Intramolecular energy:" line holds the value.
IntramolecularToken == 2

\* float(line.split()[k]) for 0-based k, as [ok, value, err].
FloatOfToken(line, k) ==
  IF Len(line.toks) < k + 1 THEN [ok |-> FALSE, value |-> PyNone, err |-> IndexError]
  ELSE IF ~_is_float(line.toks[k + 1]) THEN [ok |-> FALSE, value |-> PyNone, err |-> FloatError]
  ELSE [ok |-> TRUE, value |-> float(line.toks[k + 1]), err |-> NoError]

\* Bug variant: the affinity is read from the third token.
AffinityToken_Third == IntramolecularToken

\* Which token of an "Affinity:" line holds the value (line.split()[1]).
AffinityToken == 1

\* Bug variant: the break of line 36 is missing and the scan goes on.
AfterRawLine_NoBreak == "scan"

\* Where a qualifying "##" line sends the loop: break.
AfterRawLine == "check"

\* Loop body, branch of line 26.
ReadAffinity ==
  /\ pc = "scan" /\ i <= Len(log)
  /\ StartsWithAffinity(log[i])
  /\ LET r == FloatOfToken(log[i], AffinityToken) IN
       \/ /\ r.ok
          /\ affinity' = r.value
          /\ i' = i + 1
          /\ UNCHANGED <<pc, err>>
       \/ /\ ~r.ok
          /\ err' = r.err
          /\ pc' = "raised"
          /\ UNCHANGED <<affinity, i>>
  /\ UNCHANGED <<args, log, log_path, intramolecular, raw_values, summary, out_dir, out_file>>

\* Loop body, branch of line 28.
ReadIntramolecular ==
  /\ pc = "scan" /\ i <= Len(log)
  /\ ~StartsWithAffinity(log[i])
  /\ StartsWithIntramolecular(log[i])
  /\ LET r == FloatOfToken(log[i], IntramolecularToken) IN
       \/ /\ r.ok
          /\ intramolecular' = r.value
          /\ i' = i + 1
          /\ UNCHANGED <<pc, err>>
       \/ /\ ~r.ok
          /\ err' = r.err
          /\ pc' = "raised"
          /\ UNCHANGED <<intramolecular, i>>
  /\ UNCHANGED <<args, log, log_path, affinity, raw_values, summary, out_dir, out_file>>

\* The test of lines 31-34 on a line of the else branch.
Qualifies(line) == LOG_RAW_PATTERN(line) /\ AllFloats(Numbers(line))

\* Loop body, else branch, a qualifying line: lines 35-36.
ReadRawValues ==
  /\ pc = "scan" /\ i <= Len(log)
  /\ ~StartsWithAffinity(log[i])
  /\ ~StartsWithIntramolecular(log[i])
  /\ Qualifies(log[i])
  /\ raw_values' = PyList(Floats(Numbers(log[i])))
  /\ i' = i + 1
  /\ pc' = AfterRawLine
  /\ UNCHANGED <<args, log, log_path, affinity, intramolecular, summary, out_dir, out_file, err>>

\* Loop body, else branch, any other line.
SkipLine ==
  /\ pc = "scan" /\ i <= Len(log)
  /\ ~StartsWithAffinity(log[i])
  /\ ~StartsWithIntramolecular(log[i])
  /\ ~Qualifies(log[i])
  /\ i' = i + 1
  /\ UNCHANGED <<args, log, log_path, pc, affinity, intramolecular, raw_values, summary,
                 out_dir, out_file, err>>

\* The file is exhausted.
EndOfLog ==
  /\ pc = "scan" /\ i > Len(log)
  /\ pc' = "check"
  /\ UNCHANGED <<args, log, log_path, i, affinity, intramolecular, raw_values, summary,
                 out_dir, out_file, err>>

\* Bug variant: the length of the line found is not checked.
IsMalformed_NoLength(rv) == rv.t = "None"

\* The condition of line 38.
IsMalformed(rv) == rv.t = "None" \/ Len(rv.items) < Len(TERM_NAMES)

\* Bug variant: the values are returned without the slice.
Truncate_None(items) == items

\* raw_values[: len(TERM_NAMES)]
Truncate(items) ==
  IF Len(items) <= Len(TERM_NAMES) THEN items ELSE SubSeq(items, 1, Len(TERM_NAMES))

\* Lines 38-42.
ParseLogRaise ==
  /\ pc = "check"
  /\ IsMalformed(raw_values)
  /\ err' = MalformedLog(log_path)
  /\ pc' = "raised"
  /\ UNCHANGED <<args, log, log_path, i, affinity, intramolecular, raw_values, summary,
                 out_dir, out_file>>

\* Line 44, and the unpacking of line 145.
ParseLogReturn ==
  /\ pc = "check"
  /\ ~IsMalformed(raw_values)
  /\ raw_values' = PyList(Truncate(raw_values.items))
  /\ pc' = "build"
  /\ UNCHANGED <<args, log, log_path, i, affinity, intramolecular, summary,
                 out_dir, out_file, err>>

\* ------------------------------------------------------------- build_summary
\* d[key] = value
SetItem(d, key, value) == (key :> value) @@ d

\* Float addition and multiplication on the scaled integers.
Add(a, b) == PyFloat(a.v + b.v, a.e)
Mul(a, b) == PyFloat(a.v * b.v, a.e + b.e)

\* sum(raw_values): 0 + raw_values[0] + ..., left to right.
RECURSIVE SumFrom(_, _, _)
SumFrom(items, k, acc) ==
  IF k > Len(items) THEN acc ELSE SumFrom(items, k + 1, Add(acc, items[k]))

sum(items) == SumFrom(items, 1, PyFloat(0, 0))

Min(a, b) == IF a <= b THEN a ELSE b

\* Bug variant: "=" in place of "+=".
Accumulate_Assign(total_weighted, weighted) == weighted

\* What the body of the loop of lines 60-66 adds to total_weighted.
Accumulate(total_weighted, weighted) == Add(total_weighted, weighted)

\* The loop of lines 60-66 from its k-th iteration on, over
\* zip(TERM_NAMES, raw_values); st is [entries, total_weighted].
RECURSIVE TermLoop(_, _, _)
TermLoop(items, k, st) ==
  IF k > Min(Len(TERM_NAMES), Len(items)) THEN st
  ELSE LET term_key == TERM_NAMES[k].key
           coeff == PyFloat(TERM_NAMES[k].coeff, 6)
           raw == items[k]
           weighted == Mul(raw, coeff)
           e1 == SetItem(st.entries, term_key \o "_raw", raw)
           e2 == SetItem(e1, term_key \o "_coeff", coeff)
           e3 == SetItem(e2, term_key \o "_weighted", weighted)
           e4 == SetItem(e3, term_key, weighted)
       IN  TermLoop(items, k + 1,
                    [entries |-> e4,
                     total_weighted |-> Accumulate(st.total_weighted, weighted)])

\* total_raw of line 57.
TotalRaw(items) == sum(items)

\* build_summary(raw_values, intramolecular)
build_summary(items, intra) ==
  LET total_raw == TotalRaw(items)
      done == TermLoop(items, 1, [entries |-> EmptyDict, total_weighted |-> PyFloat(0, 6)])
      s1 == SetItem(done.entries, "SMINA_Intramolecular", intra)
      s2 == SetItem(s1, "SMINA_Total_Raw", total_raw)
      s3 == SetItem(s2, "SMINA_Total_Weighted", done.total_weighted)
      s4 == SetItem(s3, "gauss1_per_atom", EmptyStr)
      s5 == SetItem(s4, "gauss2_per_atom", EmptyStr)
      s6 == SetItem(s5, "repulsion_per_atom", EmptyStr)
      s7 == SetItem(s6, "hydrophobic_per_atom", EmptyStr)
  IN  SetItem(s7, "hydrogen_bond_per_atom", EmptyStr)

\* Line 146.
BuildSummary ==
  /\ pc = "build"
  /\ summary' = build_summary(raw_values.items, intramolecular)
  /\ pc' = "write"
  /\ UNCHANGED <<args, log, log_path, i, affinity, intramolecular, raw_values,
                 out_dir, out_file, err>>

\* ------------------------------------------------------------- write_summary_csv
field_order ==
  << "SMINA_Intramolecular", "SMINA_Total_Raw", "SMINA_Total_Weighted",
     "gauss1_raw", "gauss1_coeff", "gauss1_weighted",
     "gauss2_raw", "gauss2_coeff", "gauss2_weighted",
     "repulsion_raw", "repulsion_coeff", "repulsion_weighted",
     "hydrophobic_raw", "hydrophobic_coeff", "hydrophobic_weighted",
     "hydrogen_bond_raw", "hydrogen_bond_coeff", "hydrogen_bond_weighted",
     "torsion_raw", "torsion_coeff", "torsion_weighted",
     "gauss1_per_atom", "gauss2_per_atom", "repulsion_per_atom",
     "hydrophobic_per_atom", "hydrogen_bond_per_atom",
     "gauss1", "gauss2", "repulsion", "hydrophobic", "hydrogen_bond",
     "Affinity" >>

\* Bug variant: plain assignment in place of setdefault.
SetDefault_Assign(d, key, value) == SetItem(d, key, value)

\* d.setdefault(key, value)
SetDefault(d, key, value) == IF key \in DOMAIN d THEN d ELSE SetItem(d, key, value)

\* d.get(key, "")
Get(d, key) == IF key \in DOMAIN d THEN d[key] ELSE EmptyStr

\* The default of line 121 for a torsion field.
TorsionDefault(field) ==
  IF field # "torsion_coeff" THEN PyFloat(0, 0)
  ELSE PyFloat(TERM_NAMES[Len(TERM_NAMES)].coeff, 6)

\* Lines 116-121: the mapping the row is read from.
summary_with_affinity(s, aff) ==
  LET d0 == SetItem(s, "Affinity", aff)
      d1 == SetDefault(d0, "torsion_raw", TorsionDefault("torsion_raw"))
      d2 == SetDefault(d1, "torsion_coeff", TorsionDefault("torsion_coeff"))
      d3 == SetDefault(d2, "torsion_weighted", TorsionDefault("torsion_weighted"))
  IN  SetDefault(d3, "torsion", TorsionDefault("torsion"))

\* Bug variant: None is written as its str().
CsvField_Str(value) == value

\* What csv writes for a value: None as the empty field, anything else as
\* its str().
CsvField(value) == IF value.t = "None" THEN EmptyStr ELSE value

\* Bug variant: only the columns the mapping holds are written.
HeaderRow_Present(fieldnames, d) ==
  LET Present(name) == name \in DOMAIN d IN SelectSeq(fieldnames, Present)

\* csv.DictWriter(csvfile, fieldnames).writeheader()
HeaderRow(fieldnames, d) == fieldnames

\* writer.writerow({key: d.get(key, "") for key in field_order})
DataRow(fieldnames, d) ==
  [j \in 1..Len(fieldnames) |-> CsvField(Get(d, fieldnames[j]))]

\* The caller's mapping after the call: line 116 works on a copy.
CallerSummary(s, d) == s

\* Lines 116-127.
WriteSummaryCsv ==
  /\ pc = "write"
  /\ LET d == summary_with_affinity(summary, affinity) IN
       /\ out_dir' = TRUE
       /\ out_file' = [exists |-> TRUE,
                       header |-> HeaderRow(field_order, d),
                       rows |-> << DataRow(field_order, d) >>]
       /\ summary' = CallerSummary(summary, d)
  /\ pc' = "done"
  /\ UNCHANGED <<args, log, log_path, i, affinity, intramolecular, raw_values, err>>

\* ------------------------------------------------------------- main
Next ==
  \/ MainStart
  \/ ReadAffinity
  \/ ReadIntramolecular
  \/ ReadRawValues
  \/ SkipLine
  \/ EndOfLog
  \/ ParseLogRaise
  \/ ParseLogReturn
  \/ BuildSummary
  \/ WriteSummaryCsv

Spec == Init /\ [][Next]_vars

\* ------------------------------------------------------------- direct calls
\* build_summary called on any six raw values.
RawRange == {PyFloat(n, 0) : n \in -MaxRaw..MaxRaw}

InitBuild ==
  /\ args = [log |-> "", fs |-> [dir |-> FALSE, file |-> NoFile],
             summary |-> EmptyDict, affinity |-> PyNone]
  /\ log = <<>>
  /\ log_path = ""
  /\ pc = "build"
  /\ i = 0
  /\ affinity = PyNone
  /\ intramolecular \in {PyNone, PyFloat(-3, 0)}
  /\ raw_values \in {PyList(s) : s \in [1..Len(TERM_NAMES) -> RawRange]}
  /\ summary = EmptyDict
  /\ out_dir = FALSE
  /\ out_file = NoFile
  /\ err = NoError

NextBuild == BuildSummary

SpecBuild == InitBuild /\ [][NextBuild]_vars

\* write_summary_csv called on a mapping that misses some keys of the
\* one build_summary returns, and holds some keys of its own.
Range(s) == {s[k] : k \in 1..Len(s)}

RECURSIVE SubsetsUpTo(_, _)
SubsetsUpTo(S, n) ==
  IF n = 0 THEN {{}}
  ELSE LET smaller == SubsetsUpTo(S, n - 1)
       IN  smaller \cup {m \cup {x} : m \in smaller, x \in S}

TorsionFields == {"torsion_raw", "torsion_coeff", "torsion_weighted", "torsion"}

FullSummary == build_summary(Floats(SixA), PyFloat(-3, 0))

ExtraKeys == {"ligand", "torsion_per_atom"}

MissingSets ==
  (SUBSET TorsionFields) \cup SubsetsUpTo(DOMAIN FullSummary, MaxMissing)
    \cup {DOMAIN FullSummary}

\* The mappings to start from: the one build_summary returns, and one whose
\* torsion coefficient is not the catalog's.
BaseSummaries == {FullSummary, SetItem(FullSummary, "torsion_coeff", PyFloat(2000000, 6))}

WriterSummaries ==
  { [k \in (DOMAIN base \ m) \cup x |->
       IF k \in DOMAIN base THEN base[k] ELSE PyFloat(9, 0)] :
    base \in BaseSummaries, m \in MissingSets, x \in SUBSET ExtraKeys }

InitWriter ==
  /\ args \in [log : {""}, fs : FsStates, summary : WriterSummaries,
               affinity : {PyNone, PyFloat(-7, 0)}]
  /\ log = <<>>
  /\ log_path = ""
  /\ pc = "write"
  /\ i = 0
  /\ affinity = args.affinity
  /\ intramolecular = PyNone
  /\ raw_values = NoList
  /\ summary = args.summary
  /\ out_dir = args.fs.dir
  /\ out_file = args.fs.file
  /\ err = NoError

NextWriter == WriteSummaryCsv

SpecWriter == InitWriter /\ [][NextWriter]_vars

\* ------------------------------------------------------------- properties
\* Vocabulary of the properties, stated on the log itself.

\* A line of the form "##" + whitespace + tokens that are all floats.
NumericHashLine(line) ==
  /\ ~line.indent
  /\ Len(line.toks) >= 2
  /\ line.toks[1] = "##"
  /\ \A k \in 2..Len(line.toks) : line.toks[k] \in DOMAIN FloatTable

\* The first such line of l, in file order; Len(l) + 1 when there is none.
StopIndex(l) ==
  IF \E k \in 1..Len(l) : NumericHashLine(l[k])
  THEN CHOOSE k \in 1..Len(l) :
         NumericHashLine(l[k]) /\ \A j \in 1..(k - 1) : ~NumericHashLine(l[j])
  ELSE Len(l) + 1

HasNumericHashLine(l) == StopIndex(l) <= Len(l)

\* The number of tokens of the first numeric "##" line.
StopTokens(l) == Len(l[StopIndex(l)].toks) - 1

\* The first n values of the first numeric "##" line, as floats.
StopValues(l, n) ==
  [k \in 1..n |-> PyFloat(FloatTable[l[StopIndex(l)].toks[k + 1]], 0)]

IsAffinityLine(line) == StartsWithAffinity(line)
IsIntramolecularLine(line) == ~StartsWithAffinity(line) /\ StartsWithIntramolecular(line)

\* An "Affinity:" line whose second token, or an "Intramolecular energy:"
\* line whose third token, is missing or no float.
UnreadableMarker(line) ==
  \/ /\ IsAffinityLine(line)
     /\ (Len(line.toks) < 2 \/ line.toks[2] \notin DOMAIN FloatTable)
  \/ /\ IsIntramolecularLine(line)
     /\ (Len(line.toks) < 3 \/ line.toks[3] \notin DOMAIN FloatTable)

\* Every marker line before the line the scan stops at can be read.
MarkersReadable(l) == \A k \in 1..(StopIndex(l) - 1) : ~UnreadableMarker(l[k])

\* The last line before the stop that satisfies Is; 0 when there is none.
LastBefore(l, Is(_)) ==
  LET ks == {k \in 1..(StopIndex(l) - 1) : Is(l[k])}
  IN  IF ks = {} THEN 0 ELSE CHOOSE k \in ks : \A j \in ks : j <= k

ParseLogEnded == pc \in {"raised", "build", "write", "done"}
ParseLogReturned == pc \in {"build", "write", "done"}

\* C1 as stated: parse_log raises the Malformed Log error, naming the log
\* path, for every log with no numeric "##" line and for every log whose
\* consumed line has fewer than 6 tokens, and never when the consumed line
\* has 6 or more.
C1_AsStated ==
  ParseLogEnded =>
    /\ ~HasNumericHashLine(log) => (pc = "raised" /\ err = MalformedLog(args.log))
    /\ (raw_values.t = "list" /\ StopTokens(log) < 6) =>
         (pc = "raised" /\ err = MalformedLog(args.log))
    /\ (raw_values.t = "list" /\ StopTokens(log) >= 6) => err # MalformedLog(args.log)

\* C1 amended: once parse_log has ended, it has raised the Malformed Log
\* error naming the log path exactly when every Affinity / Intramolecular
\* energy line before the stop was readable and the log has no numeric "##"
\* line or its first one has fewer than 6 tokens; an unreadable marker line
\* read first raises its own IndexError / ValueError instead.
C1_MalformedLog ==
  ParseLogEnded =>
    /\ (pc = "raised" /\ err = MalformedLog(args.log))
         <=> (MarkersReadable(log) /\ (~HasNumericHashLine(log) \/ StopTokens(log) < 6))
    /\ err.msg = MalformedLog("").msg => (pc = "raised" /\ err.path = args.log)
    /\ ~MarkersReadable(log) => (pc = "raised" /\ err \in {IndexError, FloatError})

C1_Witness ==
  /\ pc = "raised"
  /\ err = MalformedLog(args.log)
  /\ raw_values.t = "list"
  /\ Len(raw_values.items) = 5

C6_FirstQualifyingLineWins ==
  pc = "check" =>
    IF HasNumericHashLine(log)
    THEN /\ raw_values = PyList(StopValues(log, StopTokens(log)))
         /\ i = StopIndex(log) + 1
    ELSE /\ raw_values = NoList
         /\ i = Len(log) + 1

C6_Witness ==
  /\ pc = "check"
  /\ Len(log) = 3
  /\ log[1] = NumLine(<<"Name", "1", "2", "3", "-4", "-5", "6">>)
  /\ log[2] = NumLine(SixB)
  /\ log[3] = NumLine(SixA)
  /\ raw_values = PyList(Floats(SixB))

\* C10: until write_summary_csv has run, the output path and its parent
\* directory are as they were when the run started; in particular in every
\* run that parse_log ended with an exception.
C10_OutputUntouchedBeforeWrite ==
  pc # "done" => (out_dir = args.fs.dir /\ out_file = args.fs.file)

C10_Witness ==
  /\ pc = "raised"
  /\ err = FloatError
  /\ args.fs.dir = FALSE
  /\ out_dir = FALSE
  /\ ~out_file.exists

\* The six terms in catalog order and their coefficients (times 10^6), as
\* the properties name them.
TermKeys == <<"gauss1", "gauss2", "repulsion", "hydrophobic", "hydrogen_bond", "torsion">>
TermCoeffs == <<-35579, -5156, 840245, -35069, -587439, 1923000>>

RECURSIVE SumOver(_, _)
SumOver(f, n) == IF n = 0 THEN 0 ELSE f[n] + SumOver(f, n - 1)

\* What a column of the row holds for raw values six, intramolecular
\* energy intra and affinity aff; an absent value is an empty field.
ExpectedField(name, six, intra, aff) ==
  LET Shown(x) == IF x.t = "None" THEN EmptyStr ELSE x
      raws == [k \in 1..6 |-> six[k].v]
      weighteds == [k \in 1..6 |-> six[k].v * TermCoeffs[k]]
  IN  IF name = "SMINA_Intramolecular" THEN Shown(intra)
      ELSE IF name = "Affinity" THEN Shown(aff)
      ELSE IF name = "SMINA_Total_Raw" THEN PyFloat(SumOver(raws, 6), 0)
      ELSE IF name = "SMINA_Total_Weighted" THEN PyFloat(SumOver(weighteds, 6), 6)
      ELSE IF \E k \in 1..6 : name = TermKeys[k] \o "_raw"
        THEN six[CHOOSE k \in 1..6 : name = TermKeys[k] \o "_raw"]
      ELSE IF \E k \in 1..6 : name = TermKeys[k] \o "_coeff"
        THEN PyFloat(TermCoeffs[CHOOSE k \in 1..6 : name = TermKeys[k] \o "_coeff"], 6)
      ELSE IF \E k \in 1..6 : name \in {TermKeys[k] \o "_weighted", TermKeys[k]}
        THEN PyFloat(weighteds[CHOOSE k \in 1..6 :
                                 name \in {TermKeys[k] \o "_weighted", TermKeys[k]}], 6)
      ELSE EmptyStr

\* The row of the written file is the expected one, column by column.
RowIsExpected(six, intra, aff) ==
  /\ out_file.exists
  /\ Len(out_file.rows) = 1
  /\ Len(out_file.rows[1]) = Len(out_file.header)
  /\ \A j \in 1..Len(out_file.header) :
       out_file.rows[1][j] = ExpectedField(out_file.header[j], six, intra, aff)

\* The field of the written row under column name.
Cell(name) == out_file.rows[1][CHOOSE j \in 1..Len(out_file.header) : out_file.header[j] = name]

\* C5: when the consumed "##" line has more than 6 tokens, parse_log
\* returns exactly its first 6 values in line order, these go to gauss1,
\* gauss2, repulsion, hydrophobic, hydrogen_bond, torsion in this order, and
\* every field of the written row, the two totals included, is what the
\* first 6 values alone give.
C5_ExtraTokensIgnored ==
  (ParseLogReturned /\ StopTokens(log) > 6) =>
    /\ raw_values = PyList(StopValues(log, 6))
    /\ pc \in {"write", "done"} =>
         \A k \in 1..6 : summary[TermKeys[k] \o "_raw"] = StopValues(log, 6)[k]
    /\ pc \in {"write", "done"} =>
         summary["SMINA_Total_Raw"] = ExpectedField("SMINA_Total_Raw", StopValues(log, 6),
                                                     intramolecular, affinity)
    /\ pc = "done" => RowIsExpected(StopValues(log, 6), intramolecular, affinity)

C5_Witness ==
  /\ pc = "done"
  /\ StopTokens(log) = 7
  /\ Cell("SMINA_Total_Raw") = PyFloat(3, 0)
  /\ Cell("torsion_raw") = PyFloat(6, 0)

\* The columns C7 names: the 26 leading ones, the six bare aliases, Affinity.
ClaimedColumns ==
  << "SMINA_Intramolecular", "SMINA_Total_Raw", "SMINA_Total_Weighted" >>
  \o << "gauss1_raw", "gauss1_coeff", "gauss1_weighted",
        "gauss2_raw", "gauss2_coeff", "gauss2_weighted",
        "repulsion_raw", "repulsion_coeff", "repulsion_weighted",
        "hydrophobic_raw", "hydrophobic_coeff", "hydrophobic_weighted",
        "hydrogen_bond_raw", "hydrogen_bond_coeff", "hydrogen_bond_weighted",
        "torsion_raw", "torsion_coeff", "torsion_weighted" >>
  \o << "gauss1_per_atom", "gauss2_per_atom", "repulsion_per_atom",
        "hydrophobic_per_atom", "hydrogen_bond_per_atom" >>
  \o TermKeys
  \o << "Affinity" >>

\* C7: the columns of the written file are, in order, the intramolecular
\* energy, the two totals, raw / coeff / weighted of each of the six terms,
\* the five per-atom placeholders, the six bare aliases gauss1 .. torsion,
\* each holding its term's weighted value, and Affinity last.
C7_AsStated ==
  pc = "done" =>
    /\ out_file.header = ClaimedColumns
    /\ \A k \in 1..6 : Cell(TermKeys[k]) = summary[TermKeys[k] \o "_weighted"]

\* C8 as stated: a log with a numeric "##" line of 6 or more tokens and no
\* Affinity line (respectively no Intramolecular energy line) makes
\* parse_log raise nothing.
C8_AsStated ==
  ( /\ ParseLogEnded
    /\ HasNumericHashLine(log)
    /\ StopTokens(log) >= 6
    /\ \/ \A k \in 1..Len(log) : ~IsAffinityLine(log[k])
       \/ \A k \in 1..Len(log) : ~IsIntramolecularLine(log[k]) )
  => pc # "raised"

\* C8 amended: for every log whose first numeric "##" line has 6 or more
\* tokens, whose marker lines before that line are all readable, and which
\* has no Affinity line (respectively no Intramolecular energy line) before
\* that line, parse_log raises nothing and returns that value as absent, and
\* the written file has one data row whose Affinity (respectively
\* SMINA_Intramolecular) field is empty and whose other fields are as usual.
C8_AbsentMarkerIsEmptyField ==
  LET ka == LastBefore(log, IsAffinityLine)
      ki == LastBefore(log, IsIntramolecularLine)
      aff == IF ka = 0 THEN PyNone ELSE PyFloat(FloatTable[log[ka].toks[2]], 0)
      intra == IF ki = 0 THEN PyNone ELSE PyFloat(FloatTable[log[ki].toks[3]], 0)
  IN  ( /\ ParseLogEnded
        /\ MarkersReadable(log)
        /\ HasNumericHashLine(log)
        /\ StopTokens(log) >= 6
        /\ (ka = 0 \/ ki = 0) )
      => /\ pc # "raised"
         /\ err = NoError
         /\ ka = 0 => affinity = PyNone
         /\ ki = 0 => intramolecular = PyNone
         /\ pc = "done" =>
              /\ RowIsExpected(StopValues(log, 6), intra, aff)
              /\ ka = 0 => Cell("Affinity") = EmptyStr
              /\ ki = 0 => Cell("SMINA_Intramolecular") = EmptyStr

C8_Witness ==
  /\ pc = "done"
  /\ LastBefore(log, IsAffinityLine) = 0
  /\ LastBefore(log, IsIntramolecularLine) # 0
  /\ Cell("Affinity") = EmptyStr
  /\ Cell("SMINA_Intramolecular") = PyFloat(-3, 0)

\* C2: for every six raw values, the SMINA_Total_Weighted build_summary
\* returns is the sum over the six terms of raw_i * coeff_i, which is the
\* sum of the six <name>_weighted entries, and SMINA_Total_Raw is the sum of
\* the six <name>_raw entries.
C2_TotalsAreSums ==
  pc = "write" =>
    LET raws == [k \in 1..6 |-> summary[TermKeys[k] \o "_raw"].v]
        weighteds == [k \in 1..6 |-> summary[TermKeys[k] \o "_weighted"].v]
        products == [k \in 1..6 |-> raw_values.items[k].v * TermCoeffs[k]]
    IN  /\ summary["SMINA_Total_Weighted"] = PyFloat(SumOver(products, 6), 6)
        /\ summary["SMINA_Total_Weighted"] = PyFloat(SumOver(weighteds, 6), 6)
        /\ summary["SMINA_Total_Raw"] = PyFloat(SumOver(raws, 6), 0)
        /\ \A k \in 1..6 : summary[TermKeys[k] \o "_raw"] = raw_values.items[k]

C2_Witness ==
  /\ pc = "write"
  /\ \A k \in 1..6 : raw_values.items[k] = PyFloat(1, 0)
  /\ summary["SMINA_Total_Weighted"] = PyFloat(2100002, 6)
  /\ summary["SMINA_Total_Raw"] = PyFloat(6, 0)

\* C3 as stated: the header row holds exactly 30 column names.
C3_AsStated ==
  pc = "done" => (out_file.header = field_order /\ Len(out_file.header) = 30)

\* C3 amended: the header row written by write_summary_csv always holds
\* exactly the 32 fixed column names, in the same fixed order, whatever keys
\* the summary passed in holds or misses; a key of the summary that is no
\* fixed column appears nowhere in the file, which has one data row of 32
\* fields.
C3_FixedHeader ==
  pc = "done" =>
    /\ out_file.header = field_order
    /\ Len(out_file.header) = 32
    /\ Cardinality(Range(out_file.header)) = 32
    /\ \A k \in DOMAIN args.summary :
         k \notin Range(field_order) => k \notin Range(out_file.header)
    /\ Len(out_file.rows) = 1
    /\ Len(out_file.rows[1]) = 32

C3_Witness ==
  /\ pc = "done"
  /\ "ligand" \in DOMAIN args.summary
  /\ "gauss1_raw" \notin DOMAIN args.summary
  /\ Len(out_file.header) = 32

====
